---- MODULE Spec2Model ----
(***************************************************************************)
(* The retail data-cleaning pipeline, clean_retail_data of                 *)
(* "DE Assignment 1/data/data_analyse1.py", as a state machine.            *)
(*                                                                         *)
(* input_file   the raw CSV file: whether it can be read, and its rows     *)
(* output_file  the cleaned CSV file, and the number of writes in the run  *)
(* df           the DataFrame, each row with its index label idx           *)
(* dtypes       the dtype pd.read_csv gave each column                     *)
(* pc           the statement the run is at; "raised" when an exception    *)
(*              has left clean_retail_data                                 *)
(* Q1, Q3, upper_bound   the locals of stage 6                             *)
(* returned     the table clean_retail_data returned                       *)
(* log          the console: the number of each stage whose heading was    *)
(*              printed (0 for "Loading raw data...")                      *)
(* run, first_output, first_returned   which run of the script this is,    *)
(*              and how the first one ended                                *)
(*                                                                         *)
(* A text is a sequence of one-character strings; a CSV file is a sequence *)
(* of rows of four texts (the empty text is an empty field).  A cell of    *)
(* the DataFrame is NaN (also NaT), a number (an exact fraction n/d), a    *)
(* string or a Timestamp.  Amounts are exact fractions: the model does not *)
(* round as float64 does, and it has no infinities.                        *)
(***************************************************************************)
EXTENDS Integers, Sequences, FiniteSets, TLC

VARIABLES input_file, output_file, df, dtypes, pc, Q1, Q3, upper_bound,
          returned, log, run, first_output, first_returned

vars == <<input_file, output_file, df, dtypes, pc, Q1, Q3, upper_bound,
          returned, log, run, first_output, first_returned>>

(***************************************************************************)
(* Cells.                                                                  *)
(***************************************************************************)
NaN == [k |-> "nan"]

Num(n, d) == [k |-> "num", n |-> n, d |-> d]

Str(s) == [k |-> "str", s |-> s]

Timestamp(y, m, d) == [k |-> "ts", year |-> y, month |-> m, day |-> d]

isna(c) == c.k = "nan"

notna(c) == c.k # "nan"

IsNum(c) == c.k = "num"

(***************************************************************************)
(* Exact arithmetic on numbers; every comparison with NaN is false, as in  *)
(* IEEE 754.                                                               *)
(***************************************************************************)
Abs(i) == IF i < 0 THEN -i ELSE i

RECURSIVE Gcd(_, _)
Gcd(a, b) == IF b = 0 THEN a ELSE Gcd(b, a % b)

Norm(n, d) == LET g == Gcd(Abs(n), d) IN Num(n \div g, d \div g)

RAdd(a, b) == Norm(a.n * b.d + b.n * a.d, a.d * b.d)

RSub(a, b) == Norm(a.n * b.d - b.n * a.d, a.d * b.d)

RMul(a, b) == Norm(a.n * b.n, a.d * b.d)

RDiv(a, b) == IF b.n = 0 THEN NaN
              ELSE IF b.n < 0 THEN Norm(-(a.n * b.d), a.d * (-b.n))
              ELSE Norm(a.n * b.d, a.d * b.n)

NLe(a, b) == IsNum(a) /\ IsNum(b) /\ a.n * b.d <= b.n * a.d

NLt(a, b) == IsNum(a) /\ IsNum(b) /\ a.n * b.d < b.n * a.d

NGt(a, b) == NLt(b, a)

Zero == Num(0, 1)

(* float arithmetic with NaN propagating *)
FAdd(a, b) == IF IsNum(a) /\ IsNum(b) THEN RAdd(a, b) ELSE NaN

FSub(a, b) == IF IsNum(a) /\ IsNum(b) THEN RSub(a, b) ELSE NaN

FMul(a, b) == IF IsNum(a) /\ IsNum(b) THEN RMul(a, b) ELSE NaN

FDiv(a, b) == IF IsNum(a) /\ IsNum(b) THEN RDiv(a, b) ELSE NaN

(***************************************************************************)
(* Texts: str.strip, str.lower, the digits.                                *)
(***************************************************************************)
Uppers == <<"A","B","C","D","E","F","G","H","I","J","K","L","M",
            "N","O","P","Q","R","S","T","U","V","W","X","Y","Z">>

Lowers == <<"a","b","c","d","e","f","g","h","i","j","k","l","m",
            "n","o","p","q","r","s","t","u","v","w","x","y","z">>

Digits == <<"0","1","2","3","4","5","6","7","8","9">>

IsDigit(c) == \E i \in 1..Len(Digits) : Digits[i] = c

DigitVal(c) == (CHOOSE i \in 1..Len(Digits) : Digits[i] = c) - 1

IsSpace(c) == c = " "

LowerChar(c) == IF \E i \in 1..Len(Uppers) : Uppers[i] = c
                THEN Lowers[CHOOSE i \in 1..Len(Uppers) : Uppers[i] = c]
                ELSE c

lower(s) == [i \in 1..Len(s) |-> LowerChar(s[i])]

RECURSIVE lstrip(_)
lstrip(s) == IF s # <<>> /\ IsSpace(Head(s)) THEN lstrip(Tail(s)) ELSE s

RECURSIVE rstrip(_)
rstrip(s) == IF s # <<>> /\ IsSpace(s[Len(s)])
             THEN rstrip(SubSeq(s, 1, Len(s) - 1)) ELSE s

strip(s) == rstrip(lstrip(s))

Contains(s, c) == \E i \in 1..Len(s) : s[i] = c

AllDigits(s) == s # <<>> /\ \A i \in 1..Len(s) : IsDigit(s[i])

RECURSIVE IntOf(_)
IntOf(s) == IF s = <<>> THEN 0
            ELSE 10 * IntOf(SubSeq(s, 1, Len(s) - 1)) + DigitVal(s[Len(s)])

RECURSIVE Pow10(_)
Pow10(k) == IF k = 0 THEN 1 ELSE 10 * Pow10(k - 1)

(* the text split at every occurrence of the separator *)
RECURSIVE Split(_, _)
Split(s, sep) ==
    IF ~Contains(s, sep) THEN <<s>>
    ELSE LET i == CHOOSE j \in 1..Len(s) :
                      s[j] = sep /\ \A h \in 1..(j - 1) : s[h] # sep
         IN <<SubSeq(s, 1, i - 1)>> \o Split(SubSeq(s, i + 1, Len(s)), sep)

(***************************************************************************)
(* The number a CSV field or a string holds: an optional sign, digits and  *)
(* an optional fraction part.  Anything else is not a number.              *)
(***************************************************************************)
Unsigned(s) == IF s # <<>> /\ Head(s) = "-" THEN Tail(s) ELSE s

IsNumText(s) ==
    LET parts == Split(Unsigned(s), ".")
    IN /\ Len(parts) \in {1, 2}
       /\ \A i \in 1..Len(parts) : AllDigits(parts[i])

ParseNum(s) ==
    LET parts == Split(Unsigned(s), ".")
        neg   == s # <<>> /\ Head(s) = "-"
        whole == IntOf(parts[1])
        fracd == IF Len(parts) = 2 THEN Pow10(Len(parts[2])) ELSE 1
        fracn == IF Len(parts) = 2 THEN IntOf(parts[2]) ELSE 0
        mag   == whole * fracd + fracn
    IN Norm(IF neg THEN -mag ELSE mag, fracd)

(***************************************************************************)
(* pd.to_datetime(date_str, format=..., errors='coerce'): the text is      *)
(* three fields around two separators; %Y is four digits, %m and %d one or *)
(* two digits naming a month and a day of that month.  Anything else is    *)
(* coerced to NaT.                                                         *)
(***************************************************************************)
IsLeap(y) == (y % 4 = 0 /\ y % 100 # 0) \/ y % 400 = 0

DaysIn(y, m) == IF m = 2 THEN (IF IsLeap(y) THEN 29 ELSE 28)
                ELSE IF m \in {4, 6, 9, 11} THEN 30 ELSE 31

MakeDate(ys, ms, ds) ==
    IF /\ AllDigits(ys) /\ Len(ys) = 4 /\ IntOf(ys) >= 1
       /\ AllDigits(ms) /\ Len(ms) <= 2 /\ IntOf(ms) \in 1..12
       /\ AllDigits(ds) /\ Len(ds) <= 2
       /\ IntOf(ds) \in 1..DaysIn(IntOf(ys), IntOf(ms))
    THEN Timestamp(IntOf(ys), IntOf(ms), IntOf(ds))
    ELSE NaN

(* format='%m/%d/%Y' *)
to_datetime_mdY(s) ==
    LET p == Split(s, "/")
    IN IF Len(p) = 3 THEN MakeDate(p[3], p[1], p[2]) ELSE NaN

(* format='%Y-%m-%d' *)
to_datetime_Ymd(s) ==
    LET p == Split(s, "-")
    IN IF Len(p) = 3 THEN MakeDate(p[1], p[2], p[3]) ELSE NaN

(* A number read from an all-numeric date column prints with no '/' and at *)
(* most one '-': neither format matches it.                                *)
clean_date(date_val) ==
    IF isna(date_val) THEN NaN
    ELSE IF IsNum(date_val) THEN NaN
    ELSE LET date_str == strip(date_val.s)
         IN IF Contains(date_str, "/") THEN to_datetime_mdY(date_str)
            ELSE to_datetime_Ymd(date_str)

IsValidDate(c) ==
    /\ c.k = "ts"
    /\ c.month \in 1..12
    /\ c.day \in 1..DaysIn(c.year, c.month)

(***************************************************************************)
(* Product labels.                                                         *)
(***************************************************************************)
L_tshirt == <<"t","s","h","i","r","t">>

L_t_shirt == <<"t","-","s","h","i","r","t">>

L_Tshirt == <<"T","s","h","i","r","t">>

L_mug == <<"m","u","g">>

L_Mug == <<"M","u","g">>

L_hoodie == <<"h","o","o","d","i","e">>

L_water_bottle == <<"w","a","t","e","r"," ","b","o","t","t","l","e">>

L_sticker == <<"s","t","i","c","k","e","r">>

L_sticker_pack == <<"s","t","i","c","k","e","r"," ","p","a","c","k">>

L_notebook == <<"n","o","t","e","b","o","o","k">>

L_pen == <<"p","e","n">>

L_pen_set == <<"p","e","n"," ","s","e","t">>

T_Shirt == <<"T","-","S","h","i","r","t">>

Coffee_Mug == <<"C","o","f","f","e","e"," ","M","u","g">>

Hoodie == <<"H","o","o","d","i","e">>

Water_Bottle == <<"W","a","t","e","r"," ","B","o","t","t","l","e">>

Sticker_Pack == <<"S","t","i","c","k","e","r"," ","P","a","c","k">>

Notebook == <<"N","o","t","e","b","o","o","k">>

Pen_Set == <<"P","e","n"," ","S","e","t">>

(* the generator's product names: the canonical labels *)
products == {T_Shirt, Coffee_Mug, Hoodie, Water_Bottle, Sticker_Pack,
             Notebook, Pen_Set}

product_mapping ==
    << <<L_tshirt, T_Shirt>>, <<L_t_shirt, T_Shirt>>, <<L_Tshirt, T_Shirt>>,
       <<L_mug, Coffee_Mug>>, <<L_Mug, Coffee_Mug>>, <<L_hoodie, Hoodie>>,
       <<L_water_bottle, Water_Bottle>>, <<L_sticker, Sticker_Pack>>,
       <<L_sticker_pack, Sticker_Pack>>, <<L_notebook, Notebook>>,
       <<L_pen, Pen_Set>>, <<L_pen_set, Pen_Set>> >>

(* Series.replace(dict): a value equal to a key becomes the key's value *)
replace(s, mapping) ==
    IF \E i \in 1..Len(mapping) : mapping[i][1] = s
    THEN mapping[CHOOSE i \in 1..Len(mapping) : mapping[i][1] = s][2]
    ELSE s

(* mutant: the label is not lower-cased *)
standardize_no_lower(s) == replace(strip(s), product_mapping)

(* .str.strip().str.lower() then .replace(product_mapping), on one label *)
standardize(s) == replace(lower(strip(s)), product_mapping)

(***************************************************************************)
(* pd.read_csv: a column whose non-empty fields are all numbers is a       *)
(* numeric column (an all-empty column too: float64 of NaN); any other     *)
(* column is an object column of strings and NaN.  A file with no rows     *)
(* gives object columns.  The index is the row's position in the file.     *)
(***************************************************************************)
Columns == {"date", "product", "sales_amount", "quantity"}

ColNumeric(rows, col) ==
    /\ rows # <<>>
    /\ \A i \in 1..Len(rows) : rows[i][col] = <<>> \/ IsNumText(rows[i][col])

infer_dtypes(rows) ==
    [col \in Columns |-> IF ColNumeric(rows, col) THEN "numeric" ELSE "object"]

ReadCell(text, dtype) ==
    IF text = <<>> THEN NaN
    ELSE IF dtype = "numeric" THEN ParseNum(text)
    ELSE Str(text)

read_csv(rows) ==
    LET types == infer_dtypes(rows)
    IN [i \in 1..Len(rows) |->
          [idx          |-> i - 1,
           date         |-> ReadCell(rows[i].date, types["date"]),
           product      |-> ReadCell(rows[i].product, types["product"]),
           sales_amount |-> ReadCell(rows[i].sales_amount, types["sales_amount"]),
           quantity     |-> ReadCell(rows[i].quantity, types["quantity"])]]

(* pd.to_numeric(..., errors='coerce') on one cell *)
to_numeric(c) ==
    IF IsNum(c) THEN c
    ELSE IF c.k = "str" /\ IsNumText(c.s) THEN ParseNum(c.s)
    ELSE NaN

(***************************************************************************)
(* The stages, as functions of the table.                                  *)
(***************************************************************************)
(* 1. df.dropna(how='all') *)
AllMissing(r) ==
    isna(r.date) /\ isna(r.product) /\ isna(r.sales_amount) /\ isna(r.quantity)

dropna_all(d) == SelectSeq(d, LAMBDA r : ~AllMissing(r))

(* 2. df.drop_duplicates(): the first of equal rows is kept; NaN equals NaN *)
Fields(r) == <<r.date, r.product, r.sales_amount, r.quantity>>

(* mutant: duplicates are kept *)
drop_duplicates_none(d) == d

drop_duplicates(d) ==
    LET kept[i \in 0..Len(d)] ==
            IF i = 0 THEN <<>>
            ELSE IF \E j \in 1..(i - 1) : Fields(d[j]) = Fields(d[i])
                 THEN kept[i - 1]
                 ELSE Append(kept[i - 1], d[i])
    IN kept[Len(d)]

(* 3. df['date'].apply(clean_date), then df[df['date'].notna()] *)
apply_clean_date(d) ==
    [i \in 1..Len(d) |-> [d[i] EXCEPT !.date = clean_date(d[i].date)]]

drop_invalid_dates(d) == SelectSeq(d, LAMBDA r : notna(r.date))

(* mutant: the rows with an invalid date are not removed *)
stage3_keeps_invalid(d) == apply_clean_date(d)

stage3(d) == drop_invalid_dates(apply_clean_date(d))

(* 4. df[df['product'].notna()], then strip, lower and replace *)
drop_missing_products(d) == SelectSeq(d, LAMBDA r : notna(r.product))

standardize_products(d) ==
    [i \in 1..Len(d) |->
        [d[i] EXCEPT !.product = Str(standardize(d[i].product.s))]]

stage4(d) == standardize_products(drop_missing_products(d))

(* mutant: the sign of a quantity is dropped *)
quantity_to_numeric_abs(d) ==
    [i \in 1..Len(d) |->
        [d[i] EXCEPT !.quantity =
            LET q == to_numeric(d[i].quantity)
            IN IF IsNum(q) THEN Num(Abs(q.n), q.d) ELSE q]]

(* 5. to_numeric, then df[(df['quantity'] > 0) & (df['quantity'].notna())] *)
quantity_to_numeric(d) ==
    [i \in 1..Len(d) |-> [d[i] EXCEPT !.quantity = to_numeric(d[i].quantity)]]

valid_quantity(r) == NGt(r.quantity, Zero) /\ notna(r.quantity)

stage5(d) == SelectSeq(quantity_to_numeric(d), valid_quantity)

(* 6. Series.quantile(q), q = qn/qd: NaN is skipped; linear interpolation   *)
(* between the two order statistics around position (n - 1) * q.           *)
sales_to_numeric(d) ==
    [i \in 1..Len(d) |->
        [d[i] EXCEPT !.sales_amount = to_numeric(d[i].sales_amount)]]

Amounts(d) == [i \in 1..Len(d) |-> d[i].sales_amount]

(* mutant: a missing amount counts as 0 *)
dropna_values_as_zero(v) ==
    [i \in 1..Len(v) |-> IF isna(v[i]) THEN Zero ELSE v[i]]

dropna_values(v) == SelectSeq(v, notna)

quantile(v, qn, qd) ==
    LET s == SortSeq(dropna_values(v), NLt)
        n == Len(s)
        h == (n - 1) * qn
        i == h \div qd
        r == h % qd
    IN IF n = 0 THEN NaN
       ELSE IF r = 0 THEN s[i + 1]
       ELSE RAdd(s[i + 1], RMul(Num(r, qd), RSub(s[i + 2], s[i + 1])))

OneAndHalf == Num(3, 2)

bound_of(q1, q3) == FAdd(q3, FMul(OneAndHalf, FSub(q3, q1)))

(* mutant: the upper bound is not applied *)
within_bounds_no_upper(r, upper) ==
    NGt(r.sales_amount, Zero) /\ notna(r.sales_amount)

(* mutant: "<" for "<=" *)
within_bounds_strict(r, upper) ==
    /\ NGt(r.sales_amount, Zero)
    /\ NLt(r.sales_amount, upper)
    /\ notna(r.sales_amount)

within_bounds(r, upper) ==
    /\ NGt(r.sales_amount, Zero)
    /\ NLe(r.sales_amount, upper)
    /\ notna(r.sales_amount)

positive_amount(r) == NGt(r.sales_amount, Zero) /\ notna(r.sales_amount)

(* 7. the average price of each product over the rows with an amount, and  *)
(* the amount of a row without one                                         *)
RECURSIVE SumSeq(_)
SumSeq(v) == IF v = <<>> THEN Zero ELSE FAdd(Head(v), SumSeq(Tail(v)))

missing_sales(d) == Len(SelectSeq(Amounts(d), isna))

valid_data(d) == SelectSeq(d, LAMBDA r : notna(r.sales_amount))

OfProduct(d, p) == SelectSeq(d, LAMBDA r : r.product = p)

HasPrice(vd, p) == \E i \in 1..Len(vd) : vd[i].product = p

avg_price(vd, p) ==
    FDiv(SumSeq(Amounts(OfProduct(vd, p))),
         SumSeq([i \in 1..Len(OfProduct(vd, p)) |-> OfProduct(vd, p)[i].quantity]))

fill_missing_sales(row, vd) ==
    IF isna(row.sales_amount) /\ HasPrice(vd, row.product)
    THEN FMul(avg_price(vd, row.product), row.quantity)
    ELSE row.sales_amount

stage7(d) ==
    IF missing_sales(d) > 0 /\ valid_data(d) # <<>>
    THEN [i \in 1..Len(d) |->
            [d[i] EXCEPT !.sales_amount = fill_missing_sales(d[i], valid_data(d))]]
    ELSE d

(* df.dropna(subset=['date', 'product', 'quantity', 'sales_amount']) *)
Complete(r) ==
    notna(r.date) /\ notna(r.product) /\ notna(r.quantity) /\ notna(r.sales_amount)

dropna_subset(d) == SelectSeq(d, Complete)

(* 9. df.to_csv(output_file, index=False): the rows without the index *)
to_csv(d) ==
    [i \in 1..Len(d) |->
        [date |-> d[i].date, product |-> d[i].product,
         sales_amount |-> d[i].sales_amount, quantity |-> d[i].quantity]]

(***************************************************************************)
(* The raw files the pipeline is run on.                                   *)
(***************************************************************************)
MaxRows == 2

MaxProductRows == 2

MaxAmountRows == 4

Row(date, product, sales_amount, quantity) ==
    [date |-> date, product |-> product,
     sales_amount |-> sales_amount, quantity |-> quantity]

D_iso == <<"2","0","2","4","-","0","1","-","1","5">>

D_slash == <<"1","/","1","5","/","2","0","2","4">>

D_feb30 == <<"2","0","2","4","-","0","2","-","3","0">>

P_T_SHIRT_padded == <<" ","T","-","S","H","I","R","T"," ">>

N_1 == <<"1">>

N_2 == <<"2">>

N_3 == <<"3">>

N_0 == <<"0">>

N_7 == <<"7">>

N_minus1 == <<"-","1">>

N_minus5 == <<"-","5">>

N_10 == <<"1","0">>

N_1000 == <<"1","0","0","0">>

N_17_00 == <<"1","7",".","0","0">>

N_8_50 == <<"8",".","5","0">>

N_abc == <<"a","b","c">>

Empty == <<>>

(* rows that differ from a valid Notebook row in one field, or are empty *)
RawRows ==
    { Row(D_iso, Notebook, N_10, N_1),
      Row(Empty, Empty, Empty, Empty),
      Row(D_slash, Notebook, N_10, N_1),
      Row(D_feb30, Notebook, Empty, N_1),
      Row(D_iso, Coffee_Mug, N_10, N_1),
      Row(D_iso, Empty, N_10, N_1),
      Row(D_iso, N_7, N_10, N_1),
      Row(D_iso, Notebook, N_10, N_0),
      Row(D_iso, Notebook, N_10, N_minus1),
      Row(D_iso, Notebook, N_10, N_abc),
      Row(D_iso, Notebook, Empty, N_3),
      Row(D_iso, Notebook, N_minus5, N_1),
      Row(D_iso, Notebook, N_1000, N_1) }

(* every file of at most MaxRows rows *)
GeneralTables == UNION {[1..n -> RawRows] : n \in 0..MaxRows}

(* files of valid rows that differ only in the spelling of the product *)
ProductTexts ==
    {L_tshirt, L_Tshirt, P_T_SHIRT_padded, T_Shirt, L_mug, L_Mug,
     Coffee_Mug, N_7}

ProductTables ==
    UNION {{[i \in 1..n |-> Row(D_iso, f[i], N_10, N_1)] :
                f \in [1..n -> ProductTexts]} : n \in 0..MaxProductRows}

(* files of valid Notebook rows on consecutive days, which differ only in  *)
(* the amount                                                              *)
AmountTexts == {Empty, N_minus5, N_10, N_1000}

DayText(i) == <<"2","0","2","4","-","0","1","-","0", Digits[i + 1]>>

AmountTables ==
    UNION {{[i \in 1..n |-> Row(DayText(i), Notebook, f[i], N_1)] :
                f \in [1..n -> AmountTexts]} : n \in 0..MaxAmountRows}

(* the Notebook rows (2, 17.00), (1, 8.50) and (3, no amount) *)
BackfillExample ==
    << Row(D_iso, Notebook, N_17_00, N_2),
       Row(D_iso, Notebook, N_8_50, N_1),
       Row(D_iso, Notebook, Empty, N_3) >>

(* amounts 10, 10, 10, 10, 1000 *)
OutlierExample ==
    [i \in 1..5 |-> Row(DayText(i), Notebook, IF i = 5 THEN N_1000 ELSE N_10, N_1)]

Tables ==
    GeneralTables \cup ProductTables \cup AmountTables
        \cup {BackfillExample, OutlierExample}

(***************************************************************************)
(* The state machine: one run of clean_retail_data, statement by           *)
(* statement, and a second run of the script on the same input file.       *)
(***************************************************************************)
Unset == [k |-> "unset"]

NoFile == [exists |-> FALSE, rows |-> <<>>, writes |-> 0]

NotReturned == [done |-> FALSE, rows |-> <<>>]

NoDtypes == [col \in Columns |-> "object"]

Init ==
    /\ input_file \in {[readable |-> TRUE, rows |-> t] : t \in Tables}
                      \cup {[readable |-> FALSE, rows |-> <<>>]}
    /\ output_file = NoFile
    /\ df = <<>>
    /\ dtypes = NoDtypes
    /\ pc = "read"
    /\ Q1 = Unset
    /\ Q3 = Unset
    /\ upper_bound = Unset
    /\ returned = NotReturned
    /\ log = <<>>
    /\ run = "first"
    /\ first_output = NoFile
    /\ first_returned = NotReturned

(* df = pd.read_csv(input_file) *)
Load ==
    /\ pc = "read"
    /\ input_file.readable
    /\ df' = read_csv(input_file.rows)
    /\ dtypes' = infer_dtypes(input_file.rows)
    /\ log' = Append(log, 0)
    /\ pc' = "stage1"
    /\ UNCHANGED <<input_file, output_file, Q1, Q3, upper_bound, returned,
                   run, first_output, first_returned>>

(* pd.read_csv raises: the error leaves clean_retail_data *)
LoadFails ==
    /\ pc = "read"
    /\ ~input_file.readable
    /\ log' = Append(log, 0)
    /\ pc' = "raised"
    /\ UNCHANGED <<input_file, output_file, df, dtypes, Q1, Q3, upper_bound,
                   returned, run, first_output, first_returned>>

Frame == UNCHANGED <<input_file, output_file, dtypes, Q1, Q3, upper_bound,
                     returned, run, first_output, first_returned>>

DropEmptyRows ==
    /\ pc = "stage1"
    /\ df' = dropna_all(df)
    /\ log' = Append(log, 1)
    /\ pc' = "stage2"
    /\ Frame

DropDuplicates ==
    /\ pc = "stage2"
    /\ df' = drop_duplicates(df)
    /\ log' = Append(log, 2)
    /\ pc' = "stage3"
    /\ Frame

CleanDates ==
    /\ pc = "stage3"
    /\ df' = stage3(df)
    /\ log' = Append(log, 3)
    /\ pc' = "stage4"
    /\ Frame

(* Series.str is only there for an object column *)
str_accessor_ok(types) == types["product"] = "object"

StandardizeProducts ==
    /\ pc = "stage4"
    /\ str_accessor_ok(dtypes)
    /\ df' = stage4(df)
    /\ log' = Append(log, 4)
    /\ pc' = "stage5"
    /\ Frame

(* df['product'].str raises AttributeError on a numeric column *)
StandardizeProductsFails ==
    /\ pc = "stage4"
    /\ ~str_accessor_ok(dtypes)
    /\ df' = drop_missing_products(df)
    /\ log' = Append(log, 4)
    /\ pc' = "raised"
    /\ Frame

CleanQuantity ==
    /\ pc = "stage5"
    /\ df' = stage5(df)
    /\ log' = Append(log, 5)
    /\ pc' = "stage6"
    /\ Frame

CleanSalesAmount ==
    /\ pc = "stage6"
    /\ LET d  == sales_to_numeric(df)
           q1 == quantile(Amounts(d), 1, 4)
           q3 == quantile(Amounts(d), 3, 4)
           ub == bound_of(q1, q3)
       IN IF d # <<>>
          THEN /\ Q1' = q1
               /\ Q3' = q3
               /\ upper_bound' = ub
               /\ df' = SelectSeq(d, LAMBDA r : within_bounds(r, ub))
          ELSE /\ df' = SelectSeq(d, positive_amount)
               /\ UNCHANGED <<Q1, Q3, upper_bound>>
    /\ log' = Append(log, 6)
    /\ pc' = "stage7"
    /\ UNCHANGED <<input_file, output_file, dtypes, returned, run,
                   first_output, first_returned>>

FillMissingSales ==
    /\ pc = "stage7"
    /\ df' = stage7(df)
    /\ log' = Append(log, 7)
    /\ pc' = "stage8"
    /\ Frame

DropRemainingMissing ==
    /\ pc = "stage8"
    /\ df' = dropna_subset(df)
    /\ UNCHANGED log
    /\ pc' = "save"
    /\ Frame

(* df.to_csv(output_file, index=False); return df *)
(* mutant: to_csv(..., mode='a') *)
write_append(file, rows) ==
    [exists |-> TRUE, rows |-> file.rows \o rows, writes |-> file.writes + 1]

write(file, rows) ==
    [exists |-> TRUE, rows |-> rows, writes |-> file.writes + 1]

Save ==
    /\ pc = "save"
    /\ output_file' = write(output_file, to_csv(df))
    /\ returned' = [done |-> TRUE, rows |-> df]
    /\ log' = Append(log, 8)
    /\ pc' = "done"
    /\ UNCHANGED <<input_file, df, dtypes, Q1, Q3, upper_bound, run,
                   first_output, first_returned>>

(* the script is run again on the same input file: a new process *)
Rerun ==
    /\ pc \in {"done", "raised"}
    /\ run = "first"
    /\ run' = "second"
    /\ first_output' = output_file
    /\ first_returned' = returned
    /\ output_file' = [output_file EXCEPT !.writes = 0]
    /\ df' = <<>>
    /\ dtypes' = NoDtypes
    /\ Q1' = Unset
    /\ Q3' = Unset
    /\ upper_bound' = Unset
    /\ returned' = NotReturned
    /\ log' = <<>>
    /\ pc' = "read"
    /\ UNCHANGED input_file

Next ==
    \/ Load
    \/ LoadFails
    \/ DropEmptyRows
    \/ DropDuplicates
    \/ CleanDates
    \/ StandardizeProducts
    \/ StandardizeProductsFails
    \/ CleanQuantity
    \/ CleanSalesAmount
    \/ FillMissingSales
    \/ DropRemainingMissing
    \/ Save

Spec == Init /\ [][Next]_vars

(* two runs of the script on one input file *)
NextTwice == Next \/ Rerun

SpecTwice == Init /\ [][NextTwice]_vars

(***************************************************************************)
(* What the properties below speak of.                                     *)
(***************************************************************************)
Idx(d) == {d[i].idx : i \in 1..Len(d)}

(* raw is the table as read; its row at position i *)
RawAmount(raw, i) == to_numeric(raw[i].sales_amount)

RawQuantity(raw, i) == to_numeric(raw[i].quantity)

RawDateValid(raw, i) == notna(clean_date(raw[i].date))

(* the raw row at file position i is the first of its equals, has a valid  *)
(* date, a product and a positive quantity: it is in the table that enters *)
(* stage 6                                                                 *)
EntersStage6(raw, i) ==
    /\ \A j \in 1..(i - 1) : Fields(raw[j]) # Fields(raw[i])
    /\ RawDateValid(raw, i)
    /\ notna(raw[i].product)
    /\ NGt(RawQuantity(raw, i), Zero)

AmountsEnteringStage6(raw) ==
    LET at[i \in 0..Len(raw)] ==
            IF i = 0 THEN <<>>
            ELSE IF EntersStage6(raw, i) THEN Append(at[i - 1], RawAmount(raw, i))
                 ELSE at[i - 1]
    IN at[Len(raw)]

(* the fields of the file's row that a row of the table comes from *)
RawRowOf(r) == input_file.rows[r.idx + 1]

RawProduct(r) == RawRowOf(r).product

Finished == pc = "done"

RunEnded == pc \in {"done", "raised"}

AfterStage3 ==
    \/ pc \in {"stage4", "stage5", "stage6", "stage7", "stage8", "save", "done"}
    \/ pc = "raised" /\ input_file.readable

AfterStage4 ==
    pc \in {"stage5", "stage6", "stage7", "stage8", "save", "done"}

AfterStage6 == pc \in {"stage7", "stage8", "save", "done"}

CleanRow(r) ==
    /\ notna(r.date) /\ notna(r.product)
    /\ notna(r.quantity) /\ notna(r.sales_amount)
    /\ IsValidDate(r.date)
    /\ NGt(r.quantity, Zero)
    /\ NGt(r.sales_amount, Zero)
    /\ NLe(r.sales_amount, upper_bound)

(* C1: every row of the cleaned table, as returned and as written, has all *)
(* four fields, a valid calendar date, a quantity and an amount above zero *)
(* and an amount not above the bound stage 6 computed in the run.          *)
C1_CleanedRowsValid ==
    Finished =>
        /\ \A i \in 1..Len(returned.rows) : CleanRow(returned.rows[i])
        /\ \A i \in 1..Len(output_file.rows) : CleanRow(output_file.rows[i])
        /\ output_file.rows = to_csv(returned.rows)

(* a finished run that dropped an outlier and kept a row at the bound *)
C1_Witness ==
    /\ Finished
    /\ Len(returned.rows) >= 2
    /\ \E raw \in {read_csv(input_file.rows)} :
          \E i \in 1..Len(raw) :
             EntersStage6(raw, i) /\ NGt(RawAmount(raw, i), upper_bound)
    /\ \E i \in 1..Len(returned.rows) :
          returned.rows[i].sales_amount = upper_bound

(* C2: the product of every row of the cleaned output is one of the        *)
(* canonical labels.                                                       *)
C2_ProductsCanonical ==
    Finished =>
        \A i \in 1..Len(returned.rows) :
            /\ returned.rows[i].product.k = "str"
            /\ returned.rows[i].product.s \in products

(* the other output rows of product p, and the amount they give row i *)
OutputOfProduct(p, i) ==
    SelectSeq(returned.rows, LAMBDA r : r.product = p /\ r.idx # i - 1)

Quantities(d) == [i \in 1..Len(d) |-> d[i].quantity]

BackfilledAmount(raw, p, i) ==
    FMul(FDiv(SumSeq(Amounts(OutputOfProduct(p, i))),
              SumSeq(Quantities(OutputOfProduct(p, i)))),
         RawQuantity(raw, i))

NeedsBackfill(raw, i) ==
    /\ EntersStage6(raw, i)
    /\ isna(RawAmount(raw, i))
    /\ OutputOfProduct(Str(standardize(raw[i].product.s)), i) # <<>>

(* C3: a row with a valid date, a product and a positive quantity q but no *)
(* amount, whose product has another surviving row with an amount, is in   *)
(* the cleaned output with amount (sum of that product's valid amounts /   *)
(* sum of their quantities) * q.                                           *)
C3_MissingAmountBackfilled ==
    Finished =>
        \A raw \in {read_csv(input_file.rows)} :
           \A i \in 1..Len(raw) :
              NeedsBackfill(raw, i) =>
                  \E k \in 1..Len(returned.rows) :
                      /\ returned.rows[k].idx = i - 1
                      /\ returned.rows[k].sales_amount =
                           BackfilledAmount(raw, returned.rows[k].product, i)

(* C4: the stages run in their order (the console shows the headings 0, 1, *)
(* 2, ... in that order), and a row whose date is missing or does not      *)
(* parse is gone after stage 3: it is in no later table, and the quartiles *)
(* of stage 6 are those of the amounts of the rows that have a valid date  *)
(* (and passed stages 1, 2, 4, 5).                                         *)
C4_StageOrderAndDatePriority ==
    /\ \A i \in 1..Len(log) : log[i] = i - 1
    /\ AfterStage3 <=> Len(log) >= 4
    /\ AfterStage6 <=> Len(log) >= 7 /\ pc # "raised"
    /\ AfterStage3 =>
          \A raw \in {read_csv(input_file.rows)} :
             /\ \A i \in 1..Len(df) : RawDateValid(raw, df[i].idx + 1)
             /\ AfterStage6 /\ Q1 # Unset =>
                   \A entering \in {AmountsEnteringStage6(raw)} :
                      /\ Q1 = quantile(entering, 1, 4)
                      /\ Q3 = quantile(entering, 3, 4)

(* stage 6 has run on a table, and the file has a row with an invalid date *)
(* and a missing amount that is otherwise valid                            *)
C4_Witness ==
    /\ AfterStage6
    /\ IsNum(Q1)
    /\ df # <<>>
    /\ \E raw \in {read_csv(input_file.rows)} :
          \E i \in 1..Len(raw) :
             /\ ~RawDateValid(raw, i)
             /\ isna(RawAmount(raw, i))
             /\ notna(raw[i].product)
             /\ NGt(RawQuantity(raw, i), Zero)

CountLe(v, q) == Len(SelectSeq(v, LAMBDA a : NLe(a, q)))

CountGe(v, q) == Len(SelectSeq(v, LAMBDA a : NLe(q, a)))

(* q lies at position (n - 1) * qn / qd of the sorted values *)
IsQuantile(q, v, qn, qd) ==
    LET n == Len(SelectSeq(v, notna))
        h == (n - 1) * qn
    IN IF n = 0 THEN isna(q)
       ELSE /\ CountLe(v, q) >= h \div qd + 1
            /\ CountGe(v, q) >= n - (h + qd - 1) \div qd

(* C5: stage 6 drops every row whose amount is above Q3 + 1.5 * (Q3 - Q1)  *)
(* and keeps every row with a positive amount at or below it, Q1 and Q3    *)
(* being the 25% and 75% quantiles of the amounts that enter the stage;    *)
(* amounts 10, 10, 10, 10, 1000 give the bound 10: the 1000 row is dropped *)
(* and the four 10 rows are kept.                                          *)
C5_OutlierBound ==
    /\ AfterStage6 /\ upper_bound # Unset =>
          \A raw \in {read_csv(input_file.rows)} :
          \A entering \in {AmountsEnteringStage6(raw)} :
             /\ IsQuantile(Q1, entering, 1, 4)
             /\ IsQuantile(Q3, entering, 3, 4)
             /\ upper_bound = FSub(FMul(Num(5, 2), Q3), FMul(Num(3, 2), Q1))
             /\ \A i \in 1..Len(raw) :
                   EntersStage6(raw, i) =>
                      /\ NGt(RawAmount(raw, i), upper_bound) => i - 1 \notin Idx(df)
                      /\ NGt(RawAmount(raw, i), Zero)
                           /\ NLe(RawAmount(raw, i), upper_bound) => i - 1 \in Idx(df)
    /\ Finished /\ input_file.rows = OutlierExample =>
          /\ upper_bound = Num(10, 1)
          /\ Idx(returned.rows) = {0, 1, 2, 3}

(* the run on amounts 10, 10, 10, 10, 1000 has finished with four rows *)
C5_Witness ==
    /\ Finished
    /\ input_file.rows = OutlierExample
    /\ Len(returned.rows) = 4

TshirtVariants == {L_tshirt, L_Tshirt, P_T_SHIRT_padded}

MugVariants == {L_mug, L_Mug}

SameIgnoringCaseAndPadding(a, b) == lower(strip(a)) = lower(strip(b))

(* C6: the raw products "tshirt", "Tshirt" and " T-SHIRT " all become       *)
(* T-Shirt, "mug" and "Mug" both become Coffee Mug, and two rows whose raw *)
(* products differ only in case and surrounding whitespace carry the same  *)
(* product after stage 4.                                                  *)
C6_VariantsNormalizeAlike ==
    AfterStage4 =>
        /\ \A i \in 1..Len(df) :
              /\ RawProduct(df[i]) \in TshirtVariants => df[i].product = Str(T_Shirt)
              /\ RawProduct(df[i]) \in MugVariants => df[i].product = Str(Coffee_Mug)
        /\ \A i, j \in 1..Len(df) :
              SameIgnoringCaseAndPadding(RawProduct(df[i]), RawProduct(df[j]))
                  => df[i].product = df[j].product

(* the output has a row read as "Tshirt" and one read as " T-SHIRT " *)
C6_Witness ==
    /\ Finished
    /\ \E i, j \in 1..Len(returned.rows) :
          /\ RawProduct(returned.rows[i]) = L_Tshirt
          /\ RawProduct(returned.rows[j]) = P_T_SHIRT_padded
          /\ returned.rows[i].product = returned.rows[j].product

Passes(raw, i) ==
    /\ RawDateValid(raw, i)
    /\ notna(raw[i].product)
    /\ NGt(RawQuantity(raw, i), Zero)
    /\ NGt(RawAmount(raw, i), Zero)
    /\ NLe(RawAmount(raw, i), upper_bound)

(* C7: raw rows that are identical in all four fields give at most one row *)
(* of the cleaned output, and exactly one when the row passes every        *)
(* validation stage.                                                       *)
C7_DuplicatesCollapse ==
    Finished =>
        \A raw \in {read_csv(input_file.rows)} :
        \A out \in {returned.rows} :
           /\ \A i, j \in 1..Len(out) :
                 i # j => RawRowOf(out[i]) # RawRowOf(out[j])
           /\ \A i \in 1..Len(raw) :
                 Passes(raw, i) =>
                    \E k \in 1..Len(out) : RawRowOf(out[k]) = input_file.rows[i]

(* the file holds a valid row twice and the output holds one row *)
C7_Witness ==
    /\ Finished
    /\ \E raw \in {read_csv(input_file.rows)} :
          \E i, j \in 1..Len(raw) :
             /\ i < j
             /\ input_file.rows[i] = input_file.rows[j]
             /\ Passes(raw, i)
    /\ Len(returned.rows) = 1

(* C8: a second run on the same raw input ends as the first did, returns   *)
(* the same table and leaves the same output file.                         *)
C8_SecondRunSame ==
    run = "second" /\ RunEnded =>
        /\ returned = first_returned
        /\ output_file.exists = first_output.exists
        /\ output_file.rows = first_output.rows

(* the second run has finished, with some rows kept and some dropped *)
C8_Witness ==
    /\ run = "second"
    /\ Finished
    /\ Len(returned.rows) >= 2
    /\ Len(returned.rows) < Len(input_file.rows)

(* C9: the output file is written at most once in a run and only when all  *)
(* the stages are done; when the input cannot be read the run raises and   *)
(* nothing is written; and no value of a field makes a stage raise.        *)
C9_WriteOnceNoAbort ==
    /\ output_file.writes <= 1
    /\ output_file.writes = 1 => Finished /\ Len(log) = 9
    /\ ~input_file.readable /\ RunEnded => pc = "raised" /\ output_file.writes = 0
    /\ input_file.readable => pc # "raised"

(* the table without its row i, the bound stage 6 computes on a table and  *)
(* the rows it keeps                                                       *)
Without(d, i) == SubSeq(d, 1, i - 1) \o SubSeq(d, i + 1, Len(d))

BoundOver(d) ==
    bound_of(quantile(Amounts(d), 1, 4), quantile(Amounts(d), 3, 4))

KeptOf(d) == Idx(SelectSeq(d, LAMBDA r : within_bounds(r, BoundOver(d))))

(* stage 6 ends with the bound and the rows it would have had without any  *)
(* one removable row (another row remaining)                               *)
RemovalChangesNothing(Removable(_)) ==
    pc = "stage6" =>
        LET d == sales_to_numeric(df)
        IN \A i \in 1..Len(d) :
              Removable(d[i].sales_amount) /\ Len(d) >= 2 =>
                  /\ BoundOver(Without(d, i)) = upper_bound'
                  /\ KeptOf(Without(d, i)) = Idx(df')

NotPositive(a) == isna(a) \/ NLe(a, Zero)

(* C10: the quartiles behind the stage-6 bound are taken over the numeric,  *)
(* positive amounts only: a row with a non-positive or a missing amount    *)
(* among the rows that enter stage 6 can be removed without changing the   *)
(* bound or the positive-amount rows that are kept.  (As stated, this does *)
(* not hold: a non-positive amount is part of the quartiles.)              *)
C10_QuartilesOverPositiveAmounts ==
    [][RemovalChangesNothing(NotPositive)]_vars

(* C10, amended: the quartiles are taken over every numeric amount of the  *)
(* rows that enter stage 6, the non-positive ones too: a row with a        *)
(* missing amount can be removed without changing the bound or the rows    *)
(* that are kept.                                                          *)
C10_QuartilesSkipMissingAmounts ==
    [][RemovalChangesNothing(isna)]_vars

(* stage 6 has computed a bound on a table that held a row with no amount *)
C10_Witness ==
    /\ pc = "stage7"
    /\ IsNum(upper_bound)
    /\ df # <<>>
    /\ \E raw \in {read_csv(input_file.rows)} :
          \E i \in 1..Len(raw) : EntersStage6(raw, i) /\ isna(RawAmount(raw, i))

(* the stages of the pipeline, by the statement the run is at *)
StagePcs ==
    {"stage1", "stage2", "stage3", "stage4", "stage5", "stage6", "stage7",
     "stage8"}

(* the position in the table of the row with index label x *)
Pos(d, x) == CHOOSE j \in 1..Len(d) : d[j].idx = x

(* after holds rows of before only, in the order they have in before *)
IsSubsequence(after, before) ==
    /\ Len(after) <= Len(before)
    /\ \A k \in 1..Len(after) : after[k].idx \in Idx(before)
    /\ \A k, l \in 1..Len(after) :
          k < l => Pos(before, after[k].idx) < Pos(before, after[l].idx)

(* the year, month and day a date text spells: month/day/year around '/',  *)
(* year-month-day around '-'                                               *)
SpelledDate(text) ==
    LET t == strip(text)
        p == IF Contains(t, "/") THEN Split(t, "/") ELSE Split(t, "-")
    IN IF Len(p) # 3 \/ \E i \in 1..3 : ~AllDigits(p[i]) THEN <<>>
       ELSE IF Contains(t, "/") THEN <<IntOf(p[3]), IntOf(p[1]), IntOf(p[2])>>
       ELSE <<IntOf(p[1]), IntOf(p[2]), IntOf(p[3])>>

(* the cell is the raw cell, or the calendar date the raw text spells *)
SameDate(cell, rawcell) ==
    \/ cell = rawcell
    \/ /\ cell.k = "ts"
       /\ rawcell.k = "str"
       /\ SpelledDate(rawcell.s) = <<cell.year, cell.month, cell.day>>

(* the cell is the raw cell, or the number the raw text spells *)
SameNumber(cell, rawcell) ==
    \/ cell = rawcell
    \/ /\ IsNum(cell)
       /\ rawcell.k = "str"
       /\ IsNumText(rawcell.s)
       /\ cell = ParseNum(rawcell.s)

(* a step of a stage leaves a subsequence of its table, whose rows have    *)
(* the date and the quantity of their raw rows                             *)
StageOnlyFilters ==
    pc \in StagePcs =>
        \A before \in {df} : \A after \in {df'} :
           /\ IsSubsequence(after, before)
           /\ \A raw \in {read_csv(input_file.rows)} :
                 \A k \in 1..Len(after) :
                    /\ SameDate(after[k].date, raw[after[k].idx + 1].date)
                    /\ SameNumber(after[k].quantity,
                                  raw[after[k].idx + 1].quantity)

(* C11: the pipeline only filters rows: after every stage the table is an  *)
(* order-preserving subsequence of the stage's input (the row count never  *)
(* increases, no row is added or reordered), and the date and the quantity *)
(* of every surviving row are those of its raw input row (the same         *)
(* calendar date, the same number); only product and sales_amount may      *)
(* differ from the raw values.                                             *)
C11_StagesOnlyFilter == [][StageOnlyFilters]_vars

(* a finished run that dropped a row and kept, out of a text quantity      *)
(* column, a row whose date was spelled month/day/year                     *)
C11_Witness ==
    /\ Finished
    /\ Len(returned.rows) < Len(input_file.rows)
    /\ dtypes["quantity"] = "object"
    /\ \E k \in 1..Len(returned.rows) :
          /\ Contains(RawRowOf(returned.rows[k]).date, "/")
          /\ returned.rows[k].date.k = "ts"
          /\ IsNum(returned.rows[k].quantity)

====
